---- MODULE Spec2Model ----
(***************************************************************************)
(* Model of pihole6api's local DNS record management                       *)
(* (src/src/pihole6api/local_dns.py, src/src/pihole6api/config.py).        *)
(*                                                                         *)
(* Strings are sequences of one-character strings, so that formatting,     *)
(* splitting and percent-encoding are computed and not assumed.  The       *)
(* remote appliance is the environment: it keeps the two ordered arrays    *)
(* dns.hosts and dns.cnameRecords, adds an item on PUT and removes it on   *)
(* DELETE of config/dns/<array>/<encoded item>.                            *)
(***************************************************************************)
EXTENDS Integers, Sequences, FiniteSets, TLC

VARIABLES hosts, cnameRecords, shape, last, base, upd, rd

vars == <<hosts, cnameRecords, shape, last, base, upd, rd>>

---------------------------------------------------------------------------
(* Bounds of the model. *)

\* most lines the server's dns.hosts and dns.cnameRecords arrays hold together
MaxLines == 2

\* the longest line of an array DecodeSpec starts from
MaxLineLen == 5

---------------------------------------------------------------------------
(* Text helpers (Python str operations on sequences of characters). *)

\* str(ttl) inside the f-string of add_cname_record / remove_cname_record
Digits == <<"0", "1", "2", "3", "4", "5", "6", "7", "8", "9">>

DigitChars == {Digits[i] : i \in 1..10}

RECURSIVE IntToStr(_)
IntToStr(n) ==
    IF n < 10 THEN <<Digits[n + 1]>>
    ELSE IntToStr(n \div 10) \o <<Digits[(n % 10) + 1]>>

DigitValue(c) == (CHOOSE i \in 1..10 : Digits[i] = c) - 1

RECURSIVE StrToInt(_)
StrToInt(s) ==
    IF s = <<>> THEN 0
    ELSE 10 * StrToInt(SubSeq(s, 1, Len(s) - 1)) + DigitValue(s[Len(s)])

\* the characters str.split() and str.strip() treat as whitespace
Whitespace == {" ", "\t", "\n", "\r", "\f"}

\* str.split(): the maximal runs of non-whitespace characters, in order
RECURSIVE SplitWsFrom(_, _, _)
SplitWsFrom(s, i, cur) ==
    IF i > Len(s) THEN (IF cur = <<>> THEN <<>> ELSE <<cur>>)
    ELSE IF s[i] \in Whitespace
         THEN (IF cur = <<>> THEN <<>> ELSE <<cur>>) \o SplitWsFrom(s, i + 1, <<>>)
         ELSE SplitWsFrom(s, i + 1, Append(cur, s[i]))

SplitWs(s) == SplitWsFrom(s, 1, <<>>)

\* str.split(sep) for a one-character sep: empty fields are kept
RECURSIVE SplitOnFrom(_, _, _, _)
SplitOnFrom(s, sep, i, cur) ==
    IF i > Len(s) THEN <<cur>>
    ELSE IF s[i] = sep
         THEN <<cur>> \o SplitOnFrom(s, sep, i + 1, <<>>)
         ELSE SplitOnFrom(s, sep, i + 1, Append(cur, s[i]))

SplitOn(s, sep) == SplitOnFrom(s, sep, 1, <<>>)

\* str.strip() == "": the string holds nothing but whitespace
IsBlank(s) == \A i \in 1..Len(s) : s[i] \in Whitespace

LowerLetters ==
    <<"a", "b", "c", "d", "e", "f", "g", "h", "i", "j", "k", "l", "m",
      "n", "o", "p", "q", "r", "s", "t", "u", "v", "w", "x", "y", "z">>

UpperLetters ==
    <<"A", "B", "C", "D", "E", "F", "G", "H", "I", "J", "K", "L", "M",
      "N", "O", "P", "Q", "R", "S", "T", "U", "V", "W", "X", "Y", "Z">>

UpperChar(c) ==
    IF \E i \in 1..26 : LowerLetters[i] = c
    THEN UpperLetters[CHOOSE i \in 1..26 : LowerLetters[i] = c]
    ELSE c

\* str.upper()
Upper(s) == [i \in 1..Len(s) |-> UpperChar(s[i])]

LowerChar(c) ==
    IF \E i \in 1..26 : UpperLetters[i] = c
    THEN LowerLetters[CHOOSE i \in 1..26 : UpperLetters[i] = c]
    ELSE c

\* str.lower()
Lower(s) == [i \in 1..Len(s) |-> LowerChar(s[i])]

HexChars == DigitChars \cup {"a", "b", "c", "d", "e", "f", "A", "B", "C", "D", "E", "F"}

---------------------------------------------------------------------------
(* urllib.parse.quote with its default safe="/" and the inverse the server *)
(* applies to a path segment.                                              *)

\* characters quote() never escapes: letters, digits, "_.-~", and safe "/"
QuoteSafe ==
    {LowerLetters[i] : i \in 1..26} \cup {UpperLetters[i] : i \in 1..26}
        \cup DigitChars \cup {"_", ".", "-", "~"} \cup {"/"}

\* "%XX" of the escaped characters the model's strings can hold
PctCode(c) ==
    CASE c = " " -> <<"%", "2", "0">>
      [] c = "," -> <<"%", "2", "C">>
      [] c = ":" -> <<"%", "3", "A">>
      [] c = "%" -> <<"%", "2", "5">>
      [] c = "\t" -> <<"%", "0", "9">>
      [] OTHER -> <<"%", "3", "F">>

PctEscaped == {" ", ",", ":", "%", "\t"}

RECURSIVE Quote(_)
Quote(s) ==
    IF s = <<>> THEN <<>>
    ELSE (IF Head(s) \in QuoteSafe THEN <<Head(s)>> ELSE PctCode(Head(s)))
             \o Quote(Tail(s))

RECURSIVE Unquote(_)
Unquote(s) ==
    IF s = <<>> THEN <<>>
    ELSE IF Head(s) = "%" /\ Len(s) >= 3
              /\ \E c \in PctEscaped : PctCode(c) = SubSeq(s, 1, 3)
         THEN <<CHOOSE c \in PctEscaped : PctCode(c) = SubSeq(s, 1, 3)>>
                  \o Unquote(SubSeq(s, 4, Len(s)))
         ELSE <<Head(s)>> \o Unquote(Tail(s))

---------------------------------------------------------------------------
(* ipaddress.ip_address(ip), as add_a_record_with_validation uses it: the  *)
(* string is accepted when it parses as an IPv4 or as an IPv6 address.     *)

\* IPv4Address._parse_octet: 1 to 3 decimal digits, no leading zero, <= 255
IsOctet(p) ==
    /\ p # <<>>
    /\ \A i \in 1..Len(p) : p[i] \in DigitChars
    /\ Len(p) <= 3
    /\ (Len(p) > 1 => p[1] # "0")
    /\ StrToInt(p) <= 255

\* IPv4Address._ip_int_from_string: exactly four octets separated by "."
IsIPv4(s) ==
    /\ s # <<>>
    /\ LET octets == SplitOn(s, ".")
       IN  Len(octets) = 4 /\ \A i \in 1..4 : IsOctet(octets[i])

\* IPv6Address._parse_hextet: 1 to 4 hexadecimal digits
IsHextet(p) ==
    /\ p # <<>>
    /\ Len(p) <= 4
    /\ \A i \in 1..Len(p) : p[i] \in HexChars

\* IPv6Address._ip_int_from_string on the part before an optional %scope
IsIPv6Groups(s) ==
    LET raw == SplitOn(s, ":")
        n0 == Len(raw)
        v4tail == n0 >= 3 /\ \E i \in 1..Len(raw[n0]) : raw[n0][i] = "."
        \* an embedded IPv4 tail is replaced by two hextets
        parts == IF v4tail
                 THEN SubSeq(raw, 1, n0 - 1) \o <<<<"0">>, <<"0">>>>
                 ELSE raw
        n == Len(parts)
        skips == {i \in 2..(n - 1) : parts[i] = <<>>}
        skip == CHOOSE i \in skips : TRUE
        hi == IF parts[1] = <<>> THEN skip - 2 ELSE skip - 1
        lo == IF parts[n] = <<>> THEN n - skip - 1 ELSE n - skip
    IN  /\ s # <<>>
        /\ n0 >= 3
        /\ (v4tail => IsIPv4(raw[n0]))
        /\ n <= 9
        /\ Cardinality(skips) <= 1
        /\ IF skips # {}
           THEN /\ (parts[1] = <<>> => hi = 0)
                /\ (parts[n] = <<>> => lo = 0)
                /\ 8 - (hi + lo) >= 1
                /\ \A i \in 1..hi : IsHextet(parts[i])
                /\ \A i \in (n - lo + 1)..n : IsHextet(parts[i])
           ELSE /\ n = 8
                /\ \A i \in 1..8 : IsHextet(parts[i])

\* IPv6Address.__init__: "addr%scope" with a non-empty scope without "%"
IsIPv6(s) ==
    LET f == SplitOn(s, "%")
    IN  /\ Len(f) <= 2
        /\ (Len(f) = 2 => f[2] # <<>>)
        /\ IsIPv6Groups(f[1])

\* the try block of add_a_record_with_validation raises no ValueError
IsValidIP(s) == IsIPv4(s) \/ IsIPv6(s)

---------------------------------------------------------------------------
(* The values of the model. *)

\* Python's None for an omitted record_type, ip or target: a sequence that
\* is no string, since its one element is not a character
None == <<"None">>

\* the default of the ttl parameter
DefaultTtl == 300

\* "config", the path get_all_records fetches
ConfigPath == <<"c", "o", "n", "f", "i", "g">>

\* "config/dns/hosts/", the prefix of add_a_record's and remove_a_record's path
HostsPrefix == 
    <<"c", "o", "n", "f", "i", "g", "/", "d", "n", "s", "/", "h", "o", "s", "t", "s", "/">>

\* "config/dns/cnameRecords/", the prefix of the CNAME operations' path
CnamePrefix == 
    <<"c", "o", "n", "f", "i", "g", "/", "d", "n", "s", "/", "c", "n", "a", "m", "e", "R", "e", "c", "o", "r", "d", "s", "/">>

\* the address line with its two fields in the wrong order
HostLineSwapped(ip, hostname) == hostname \o <<" ">> \o ip

\* f"{ip} {hostname}"
HostLine(ip, hostname) == ip \o <<" ">> \o hostname

\* the alias line without its ttl field
CnameLineNoTtl(alias, target, ttl) == alias \o <<",">> \o target

\* f"{alias},{target},{ttl}"
CnameLine(alias, target, ttl) ==
    alias \o <<",">> \o target \o <<",">> \o IntToStr(ttl)

\* f"config/dns/hosts/{encoded_value}"
HostsPath(ip, hostname) == HostsPrefix \o Quote(HostLine(ip, hostname))

\* f"config/dns/cnameRecords/{encoded_value}"
CnamePath(alias, target, ttl) == CnamePrefix \o Quote(CnameLine(alias, target, ttl))

\* dict.get(key, default)
DictGet(d, key, default) == IF key \in DOMAIN d THEN d[key] ELSE default

\* an empty dict
EmptyMap == <<>>

\* d[key] = value on a dict
MapPut(m, key, value) ==
    [k \in (DOMAIN m) \cup {key} |-> IF k = key THEN value ELSE m[k]]

\* {"A": {}, "CNAME": {}}
EmptyRecords == [A |-> EmptyMap, CNAME |-> EmptyMap]

---------------------------------------------------------------------------
(* The remote appliance and the transport (connection.get/put/delete).     *)
(* A server state is [hosts |-> lines, cnameRecords |-> lines, shape |->    *)
(* the sections its GET config answer carries].  A                         *)
(* transport call either fails before it reaches the server (it raises and *)
(* the server is unchanged) or is answered by the server; a refusal by the *)
(* server is raised as well.                                               *)

\* the lines of an array, as a set
Range(q) == {q[i] : i \in 1..Len(q)}

\* the array without its entries equal to item
RECURSIVE Without(_, _)
Without(q, item) ==
    IF q = <<>> THEN <<>>
    ELSE IF Head(q) = item THEN Without(Tail(q), item)
         ELSE <<Head(q)>> \o Without(Tail(q), item)

IsPrefix(p, s) == Len(p) <= Len(s) /\ SubSeq(s, 1, Len(p)) = p

\* the array and the item a mutation path names: the path is split at "/",
\* and the one component after the array's name is percent-decoded
ServerRoute(path) ==
    LET under(prefix) ==
            /\ IsPrefix(prefix, path)
            /\ Len(path) > Len(prefix)
            /\ \A i \in (Len(prefix) + 1)..Len(path) : path[i] # "/"
        item(prefix) == Unquote(SubSeq(path, Len(prefix) + 1, Len(path)))
    IN  IF under(HostsPrefix)
        THEN [ok |-> TRUE, array |-> "hosts", item |-> item(HostsPrefix)]
        ELSE IF under(CnamePrefix)
        THEN [ok |-> TRUE, array |-> "cnameRecords", item |-> item(CnamePrefix)]
        ELSE [ok |-> FALSE, array |-> "", item |-> <<>>]

\* the sections a GET config answer can carry: all of them, or all but one
Shapes == {"full", "no_config", "no_dns", "no_hosts", "no_cnameRecords"}

\* the JSON document GET config answers with
Payload(s) ==
    CASE s.shape = "no_config" -> [took |-> <<"0">>]
      [] s.shape = "no_dns" -> [config |-> EmptyMap]
      [] s.shape = "no_hosts" ->
            [config |-> [dns |-> [cnameRecords |-> s.cnameRecords]]]
      [] s.shape = "no_cnameRecords" ->
            [config |-> [dns |-> [hosts |-> s.hosts]]]
      [] OTHER ->
            [config |-> [dns |-> [hosts |-> s.hosts,
                                  cnameRecords |-> s.cnameRecords]]]

\* PUT: the item is appended to its array; an item already present, or a
\* path that names no array item, is refused and changes nothing
ServerPut(s, path) ==
    LET r == ServerRoute(path)
    IN  IF ~r.ok \/ r.item \in Range(s[r.array])
        THEN [ok |-> FALSE, s |-> s]
        ELSE [ok |-> TRUE, s |-> [s EXCEPT ![r.array] = Append(@, r.item)]]

\* DELETE: the item is removed from its array; an item that is not there,
\* or a path that names no array item, is refused and changes nothing
ServerDelete(s, path) ==
    LET r == ServerRoute(path)
    IN  IF ~r.ok \/ r.item \notin Range(s[r.array])
        THEN [ok |-> FALSE, s |-> s]
        ELSE [ok |-> TRUE, s |-> [s EXCEPT ![r.array] = Without(@, r.item)]]

\* what a call leaves in the log of transport calls
Call(verb, path, result) == [verb |-> verb, path |-> path, result |-> result]

\* the parsed JSON a successful put or delete returns
Response(verb, path) == [verb |-> verb, path |-> path]

NoResponse == Response("none", <<>>)

\* connection.get("config"); fail: the transport raises
TransportGet(s, fail) ==
    [raised |-> fail,
     json |-> Payload(s),
     call |-> Call("get", ConfigPath, IF fail THEN "transport_error" ELSE "ok")]

\* connection.put(path)
TransportPut(s, path, fail) ==
    LET r == ServerPut(s, path)
    IN  IF fail
        THEN [raised |-> TRUE, s |-> s, ret |-> NoResponse,
              call |-> Call("put", path, "transport_error")]
        ELSE [raised |-> ~r.ok, s |-> r.s,
              ret |-> IF r.ok THEN Response("put", path) ELSE NoResponse,
              call |-> Call("put", path, IF r.ok THEN "ok" ELSE "refused")]

\* connection.delete(path)
TransportDelete(s, path, fail) ==
    LET r == ServerDelete(s, path)
    IN  IF fail
        THEN [raised |-> TRUE, s |-> s, ret |-> NoResponse,
              call |-> Call("delete", path, "transport_error")]
        ELSE [raised |-> ~r.ok, s |-> r.s,
              ret |-> IF r.ok THEN Response("delete", path) ELSE NoResponse,
              call |-> Call("delete", path, IF r.ok THEN "ok" ELSE "refused")]

---------------------------------------------------------------------------
(* PiHole6LocalDNS.  Each method is an operator from the server state s    *)
(* and the fail flags F of its successive transport calls (F[i]: the i-th  *)
(* call raises in the transport) to its outcome:                           *)
(*   s       the server state it leaves                                    *)
(*   calls   the transport calls it issued, in order                       *)
(*   kind    "returned", or the exception that reaches the caller:         *)
(*           "not_found" and "validation_error" (both ValueError) or       *)
(*           "transport_error" (raised by the connection)                  *)
(*   ret     the response it returns                                       *)
(*   records the record maps it returns                                    *)

Outcome(s, calls, kind, ret, records) ==
    [s |-> s, calls |-> calls, kind |-> kind, ret |-> ret, records |-> records]

\* the fail flags left after n transport calls
Rest(F, n) == SubSeq(F, n + 1, Len(F))

\* a loop that keeps the ip a hostname already maps to
RECURSIVE PutHostnamesKeepFirst(_, _, _)
PutHostnamesKeepFirst(m, hostnames, ip) ==
    IF hostnames = <<>> THEN m
    ELSE PutHostnamesKeepFirst(IF Head(hostnames) \in DOMAIN m THEN m
                               ELSE MapPut(m, Head(hostnames), ip),
                               Tail(hostnames), ip)

\* for hostname in hostnames: result["A"][hostname] = ip
RECURSIVE PutHostnames(_, _, _)
PutHostnames(m, hostnames, ip) ==
    IF hostnames = <<>> THEN m
    ELSE PutHostnames(MapPut(m, Head(hostnames), ip), Tail(hostnames), ip)

\* a loop over hosts that ends at the first line of fewer than 2 tokens
RECURSIVE DecodeHostsStopAtShort(_, _)
DecodeHostsStopAtShort(m, lines) ==
    IF lines = <<>> THEN m
    ELSE LET parts == SplitWs(Head(lines))
         IN  IF Len(parts) >= 2
             THEN DecodeHostsStopAtShort(PutHostnames(m, Tail(parts), parts[1]),
                                         Tail(lines))
             ELSE m

\* the loop over hosts: lines of fewer than 2 tokens are skipped
RECURSIVE DecodeHosts(_, _)
DecodeHosts(m, lines) ==
    IF lines = <<>> THEN m
    ELSE LET parts == SplitWs(Head(lines))
         IN  DecodeHosts(IF Len(parts) >= 2
                         THEN PutHostnames(m, Tail(parts), parts[1])
                         ELSE m,
                         Tail(lines))

\* the loop over cnameRecords: lines of fewer than 2 fields are skipped
RECURSIVE DecodeCnames(_, _)
DecodeCnames(m, lines) ==
    IF lines = <<>> THEN m
    ELSE LET parts == SplitOn(Head(lines), ",")
         IN  DecodeCnames(IF Len(parts) >= 2
                          THEN MapPut(m, parts[1], parts[2])
                          ELSE m,
                          Tail(lines))

\* a try block that indexes the payload: a missing key ends it, and the
\* except clause returns the empty record maps
DecodeRecordsIndexed(config_response, record_type) ==
    IF /\ "config" \in DOMAIN config_response
       /\ "dns" \in DOMAIN config_response.config
       /\ {"hosts", "cnameRecords"} \subseteq DOMAIN config_response.config.dns
    THEN [A |-> IF record_type = None \/ Upper(record_type) = <<"A">>
                THEN DecodeHosts(EmptyMap, config_response.config.dns.hosts)
                ELSE EmptyMap,
          CNAME |-> IF record_type = None
                       \/ Upper(record_type) = <<"C", "N", "A", "M", "E">>
                    THEN DecodeCnames(EmptyMap,
                                      config_response.config.dns.cnameRecords)
                    ELSE EmptyMap]
    ELSE EmptyRecords

\* the body of get_all_records' try block on a fetched payload
DecodeRecords(config_response, record_type) ==
    LET config_data == DictGet(config_response, "config", EmptyMap)
        dns_config == DictGet(config_data, "dns", EmptyMap)
        hostLines == DictGet(dns_config, "hosts", <<>>)
        cname_records == DictGet(dns_config, "cnameRecords", <<>>)
    IN  [A |-> IF record_type = None \/ Upper(record_type) = <<"A">>
               THEN DecodeHosts(EmptyMap, hostLines)
               ELSE EmptyMap,
         CNAME |-> IF record_type = None
                      \/ Upper(record_type) = <<"C", "N", "A", "M", "E">>
                   THEN DecodeCnames(EmptyMap, cname_records)
                   ELSE EmptyMap]

\* get_all_records: an exception of the fetch is caught, and the empty
\* record maps are returned in its place
GetAllRecords(s, record_type, F) ==
    LET g == TransportGet(s, F[1])
    IN  IF g.raised
        THEN Outcome(s, <<g.call>>, "returned", NoResponse, EmptyRecords)
        ELSE Outcome(s, <<g.call>>, "returned", NoResponse,
                     DecodeRecords(g.json, record_type))

\* get_a_records
GetARecords(s, F) ==
    LET r == GetAllRecords(s, None, F)
    IN  [r EXCEPT !.records = [A |-> r.records.A, CNAME |-> EmptyMap]]

\* get_cname_records
GetCnameRecords(s, F) ==
    LET r == GetAllRecords(s, None, F)
    IN  [r EXCEPT !.records = [A |-> EmptyMap, CNAME |-> r.records.CNAME]]

---------------------------------------------------------------------------
(* PiHole6Configuration.get_local_dns_records: the same payload decoded to *)
(* a list of records, one dict per record, in server order.                *)

\* the ttl text of an alias line that carries none
DefaultTtlText == <<"d", "e", "f", "a", "u", "l", "t">>

\* {"domain", "ip", "type": "A", "raw_entry"}
ARecord(hostname, ip, host_entry) ==
    [domain |-> hostname, ip |-> ip, type |-> "A", raw_entry |-> host_entry]

\* {"domain", "target", "type": "CNAME", "ttl", "raw_entry"}
CnameRecord(source, target, ttl, cname_entry) ==
    [domain |-> source, target |-> target, type |-> "CNAME", ttl |-> ttl,
     raw_entry |-> cname_entry]

\* a decoder that keeps only the first hostname of a line
ListHostnamesFirstOnly(hostnames, ip, host_entry) ==
    <<ARecord(hostnames[1], ip, host_entry)>>

\* for hostname in hostnames: all_records.append({...})
ListHostnames(hostnames, ip, host_entry) ==
    [i \in 1..Len(hostnames) |-> ARecord(hostnames[i], ip, host_entry)]

\* the loop over hosts
RECURSIVE ListHosts(_)
ListHosts(lines) ==
    IF lines = <<>> THEN <<>>
    ELSE LET parts == SplitWs(Head(lines))
         IN  (IF Len(parts) >= 2
              THEN ListHostnames(Tail(parts), parts[1], Head(lines))
              ELSE <<>>)
             \o ListHosts(Tail(lines))

\* a loop over cname_records that takes only the lines that carry a ttl
RECURSIVE ListCnamesWithTtl(_)
ListCnamesWithTtl(lines) ==
    IF lines = <<>> THEN <<>>
    ELSE LET parts == SplitOn(Head(lines), ",")
         IN  (IF Len(parts) >= 3
              THEN <<CnameRecord(parts[1], parts[2], parts[3], Head(lines))>>
              ELSE <<>>)
             \o ListCnamesWithTtl(Tail(lines))

\* the loop over cname_records
RECURSIVE ListCnames(_)
ListCnames(lines) ==
    IF lines = <<>> THEN <<>>
    ELSE LET parts == SplitOn(Head(lines), ",")
         IN  (IF Len(parts) >= 2
              THEN <<CnameRecord(parts[1], parts[2],
                                 IF Len(parts) > 2 THEN parts[3]
                                                   ELSE DefaultTtlText,
                                 Head(lines))>>
              ELSE <<>>)
             \o ListCnames(Tail(lines))

\* the body of get_local_dns_records' try block on a fetched payload
ListRecords(config_response, record_type) ==
    LET config_data == DictGet(config_response, "config", EmptyMap)
        dns_config == DictGet(config_data, "dns", EmptyMap)
        hostLines == DictGet(dns_config, "hosts", <<>>)
        cname_records == DictGet(dns_config, "cnameRecords", <<>>)
    IN  (IF record_type = None \/ Upper(record_type) = <<"A">>
         THEN ListHosts(hostLines)
         ELSE <<>>)
        \o (IF record_type = None
               \/ Upper(record_type) = <<"C", "N", "A", "M", "E">>
            THEN ListCnames(cname_records)
            ELSE <<>>)

\* an outcome that carries a list of records
ListOutcome(s, calls, kind, list) ==
    [s |-> s, calls |-> calls, kind |-> kind, ret |-> NoResponse,
     records |-> EmptyRecords, list |-> list]

\* get_local_dns_records: an exception of the fetch is raised again,
\* wrapped in a plain Exception
GetLocalDnsRecords(s, record_type, F) ==
    LET g == TransportGet(s, F[1])
    IN  IF g.raised
        THEN ListOutcome(s, <<g.call>>, "retrieval_error", <<>>)
        ELSE ListOutcome(s, <<g.call>>, "returned",
                         ListRecords(g.json, record_type))

---------------------------------------------------------------------------
(* PiHole6LocalDNS.export_records.  The file it writes is a record: the    *)
(* format written, the JSON document (json), the header row and the rows   *)
(* after it (csv).  A row is the sequence of its four fields.  The rows    *)
(* are a set: the keys of a dict are distinct, so that no row is written   *)
(* twice, and the order of the rows is the dict's.                         *)

NoFile == [format |-> "none", doc |-> EmptyRecords, header |-> <<>>, rows |-> {}]

FormatJson == <<"j", "s", "o", "n">>
FormatCsv == <<"c", "s", "v">>

\* ["Domain", "Type", "Target", "TTL"]
CsvHeader ==
    <<<<"D", "o", "m", "a", "i", "n">>, <<"T", "y", "p", "e">>,
      <<"T", "a", "r", "g", "e", "t">>, <<"T", "T", "L">>>>

\* [domain, "A", ip, ""]
CsvARow(domain, ip) == <<domain, <<"A">>, ip, <<>>>>

\* [alias, "CNAME", target, "300"]
CsvCnameRow(alias, target) ==
    <<alias, <<"C", "N", "A", "M", "E">>, target, <<"3", "0", "0">>>>

\* an outcome that carries the file written
FileOutcome(g, kind, file) ==
    [s |-> g.s, calls |-> g.calls, kind |-> kind, ret |-> NoResponse,
     records |-> g.records, file |-> file]

\* export_records: the records are fetched, then the format is looked at
ExportRecords(s, format, F) ==
    LET g == GetAllRecords(s, None, F)
        all_records == g.records
    IN  IF Lower(format) = FormatJson
        THEN FileOutcome(g, "returned",
                         [NoFile EXCEPT !.format = "json", !.doc = all_records])
        ELSE IF Lower(format) = FormatCsv
        THEN FileOutcome(g, "returned",
                 [NoFile EXCEPT
                     !.format = "csv",
                     !.header = CsvHeader,
                     !.rows = {CsvARow(domain, all_records.A[domain]) :
                                   domain \in DOMAIN all_records.A}
                              \cup
                              {CsvCnameRow(alias, all_records.CNAME[alias]) :
                                   alias \in DOMAIN all_records.CNAME}])
        ELSE FileOutcome(g, "validation_error", NoFile)

\* the outcome of a method that ends with return self.connection.put(...)
\* or return self.connection.delete(...), after the calls made before it
ReturnCall(before, t) ==
    Outcome(t.s, Append(before, t.call),
            IF t.raised THEN "transport_error" ELSE "returned",
            t.ret, EmptyRecords)

\* add_a_record: no check of hostname or ip precedes the put
AddARecord(s, hostname, ip, F) ==
    ReturnCall(<<>>, TransportPut(s, HostsPath(ip, hostname), F[1]))

\* remove_a_record without its check that the hostname was found: the
\* delete is issued with an empty ip
RemoveARecordUnchecked(s, hostname, ip, F) ==
    IF ip = None
    THEN LET g == GetARecords(s, F)
         IN  ReturnCall(g.calls,
                 TransportDelete(g.s,
                     HostsPath(DictGet(g.records.A, hostname, <<>>), hostname),
                     F[Len(g.calls) + 1]))
    ELSE ReturnCall(<<>>, TransportDelete(s, HostsPath(ip, hostname), F[1]))

\* remove_a_record
RemoveARecord(s, hostname, ip, F) ==
    IF ip = None
    THEN LET g == GetARecords(s, F)
             a_records == g.records.A
         IN  IF hostname \notin DOMAIN a_records
             THEN Outcome(g.s, g.calls, "not_found", NoResponse, EmptyRecords)
             ELSE ReturnCall(g.calls,
                      TransportDelete(g.s, HostsPath(a_records[hostname], hostname),
                                      F[Len(g.calls) + 1]))
    ELSE ReturnCall(<<>>, TransportDelete(s, HostsPath(ip, hostname), F[1]))

\* update_a_record adding the new record before it removes the old one
UpdateARecordAddFirst(s, hostname, new_ip, F) ==
    LET ad == AddARecord(s, hostname, new_ip, F)
        rm == RemoveARecord(ad.s, hostname, None, Rest(F, Len(ad.calls)))
    IN  [ad EXCEPT !.s = rm.s, !.calls = ad.calls \o rm.calls]

\* update_a_record without the try/except around remove_a_record: what the
\* remove raises reaches the caller and nothing is added
UpdateARecordStrict(s, hostname, new_ip, F) ==
    LET rm == RemoveARecord(s, hostname, None, F)
        ad == AddARecord(rm.s, hostname, new_ip, Rest(F, Len(rm.calls)))
    IN  IF rm.kind # "returned" THEN rm
        ELSE [ad EXCEPT !.calls = rm.calls \o ad.calls]

\* update_a_record: whatever remove_a_record raises is discarded by the
\* bare except, then the outcome is add_a_record's
UpdateARecord(s, hostname, new_ip, F) ==
    LET rm == RemoveARecord(s, hostname, None, F)
        ad == AddARecord(rm.s, hostname, new_ip, Rest(F, Len(rm.calls)))
    IN  [ad EXCEPT !.calls = rm.calls \o ad.calls]

\* add_cname_record
AddCnameRecord(s, alias, target, ttl, F) ==
    ReturnCall(<<>>, TransportPut(s, CnamePath(alias, target, ttl), F[1]))

\* remove_cname_record
RemoveCnameRecord(s, alias, target, ttl, F) ==
    IF target = None
    THEN LET g == GetCnameRecords(s, F)
             cname_records == g.records.CNAME
         IN  IF alias \notin DOMAIN cname_records
             THEN Outcome(g.s, g.calls, "not_found", NoResponse, EmptyRecords)
             ELSE ReturnCall(g.calls,
                      TransportDelete(g.s, CnamePath(alias, cname_records[alias], ttl),
                                      F[Len(g.calls) + 1]))
    ELSE ReturnCall(<<>>, TransportDelete(s, CnamePath(alias, target, ttl), F[1]))

\* add_a_record_with_validation
AddARecordWithValidation(s, hostname, ip, F) ==
    IF ~IsValidIP(ip)
    THEN Outcome(s, <<>>, "validation_error", NoResponse, EmptyRecords)
    ELSE IF hostname = <<>> \/ IsBlank(hostname)
    THEN Outcome(s, <<>>, "validation_error", NoResponse, EmptyRecords)
    ELSE AddARecord(s, hostname, ip, F)

---------------------------------------------------------------------------
(* The queries computed in memory on the decoded maps: search_records,     *)
(* get_records_by_ip and get_statistics.                                   *)

\* needle in text, on str
Contains(needle, text) ==
    \E i \in 1..(Len(text) - Len(needle) + 1) :
        SubSeq(text, i, i + Len(needle) - 1) = needle

\* {key: value for key, value in m.items() if key in keep}
Restrict(m, keep) == [k \in keep |-> m[k]]

\* an outcome of g's fetch that carries the maps found
WithRecords(g, records) ==
    [s |-> g.s, calls |-> g.calls, kind |-> g.kind, ret |-> NoResponse,
     records |-> records]

\* a search that looks at the ip and the target as well
SearchRecordsAnyField(s, query, F) ==
    LET g == GetAllRecords(s, None, F)
        all_records == g.records
        query_lower == Lower(query)
    IN  WithRecords(g,
            [A |-> Restrict(all_records.A,
                       {domain \in DOMAIN all_records.A :
                            \/ Contains(query_lower, Lower(domain))
                            \/ Contains(query_lower, Lower(all_records.A[domain]))}),
             CNAME |-> Restrict(all_records.CNAME,
                       {alias \in DOMAIN all_records.CNAME :
                            \/ Contains(query_lower, Lower(alias))
                            \/ Contains(query_lower,
                                        Lower(all_records.CNAME[alias]))})])

\* search_records
SearchRecords(s, query, F) ==
    LET g == GetAllRecords(s, None, F)
        all_records == g.records
        query_lower == Lower(query)
    IN  WithRecords(g,
            [A |-> Restrict(all_records.A,
                       {domain \in DOMAIN all_records.A :
                            Contains(query_lower, Lower(domain))}),
             CNAME |-> Restrict(all_records.CNAME,
                       {alias \in DOMAIN all_records.CNAME :
                            Contains(query_lower, Lower(alias))})])

\* get_records_by_ip: the list of the domains, as a set (the keys of a
\* dict are distinct)
GetRecordsByIp(s, ip, F) ==
    LET g == GetARecords(s, F)
        a_records == g.records.A
    IN  [s |-> g.s, calls |-> g.calls, kind |-> g.kind, ret |-> NoResponse,
         records |-> EmptyRecords,
         names |-> {domain \in DOMAIN a_records : a_records[domain] = ip}]

\* a Python int and a Python list, told apart by their type; the items of
\* the list as a set
PyInt(n) == [type |-> "int", n |-> n]
PyList(items) == [type |-> "list", items |-> items]

\* the statistics of no call
NoStats == [A |-> 0, CNAME |-> 0, unique_ips |-> 0, domains_per_ip |-> EmptyMap]

\* get_statistics
GetStatistics(s, F) ==
    LET g == GetAllRecords(s, None, F)
        a_records == g.records.A
        cname_records == g.records.CNAME
        unique_ips == {a_records[domain] : domain \in DOMAIN a_records}
        domains_per_ip ==
            [ip \in unique_ips |->
                PyList({domain \in DOMAIN a_records : a_records[domain] = ip})]
    IN  [s |-> g.s, calls |-> g.calls, kind |-> g.kind, ret |-> NoResponse,
         records |-> EmptyRecords,
         stats |-> [A |-> Cardinality(DOMAIN a_records),
                    CNAME |-> Cardinality(DOMAIN cname_records),
                    unique_ips |-> Cardinality(unique_ips),
                    domains_per_ip |-> domains_per_ip]]

---------------------------------------------------------------------------
(* The inputs the callers draw from. *)

\* "1.1.1.1" and "::1"
IPv4One == <<"1", ".", "1", ".", "1", ".", "1">>
IPv6One == <<":", ":", "1">>

\* "256.1.1.1", the invalid literal of the validation tests
BadOctetIP == <<"2", "5", "6", ".", "1", ".", "1", ".", "1">>

ValidIPs == {IPv4One, IPv6One}
InvalidIPs == {BadOctetIP}

Hostnames == {<<"a">>, <<"b">>}

\* "" and " ", the invalid domains of the validation tests
BlankHostnames == {<<>>, <<" ">>}

Aliases == {<<"x">>, <<"y">>}
Targets == {<<"a">>}

\* ttl values passed explicitly; a call may also omit ttl
ExplicitTtls == {60}

\* the ttl parameter as the method sees it: its default when omitted
TtlParam(omitted, ttl) == IF omitted THEN DefaultTtl ELSE ttl

\* "a/b": a name with the path separator in it
SlashHostname == <<"a", "/", "b">>

\* "a b": a name with a space in it, neither empty nor blank
SpacedHostname == <<"a", " ", "b">>

\* (hostname, ip) pairs handed to add_a_record and its validating variant
AddInputs ==
    (Hostnames \X (ValidIPs \cup InvalidIPs))
        \cup ((BlankHostnames \cup {SlashHostname}) \X {IPv4One})

\* (hostname, ip) pairs handed to add_a_record_with_validation
ValidationInputs == AddInputs \cup {<<SpacedHostname, IPv4One>>}

RecordTypes == {None, <<"a">>, <<"C", "N", "A", "M", "E">>, <<"M", "X">>}

\* format names handed to export_records: "json", "csv", "CSV", "zone" and
\* a name no export knows, "xml"
Formats ==
    {FormatJson, FormatCsv, <<"C", "S", "V">>, <<"z", "o", "n", "e">>,
     <<"x", "m", "l">>}

\* the texts searched for: "a" and "A", "1" (the ip token of the decoded
\* lines), "X" and "1a"
Queries == {<<"a">>, <<"A">>, <<"1">>, <<"X">>, <<"1", "a">>}

\* the ips asked for by get_records_by_ip
QueryIPs == {IPv4One, <<"1">>}

\* the fail flags of a method that issues at most k transport calls
FailFlags(k) == {F \in [1..3 -> BOOLEAN] : \A i \in 1..3 : i > k => ~F[i]}

NoFail == [i \in 1..3 |-> FALSE]

\* server configurations a session can start from: an empty one, and one
\* whose lines no put of this library writes (several hostnames on a line,
\* an alias line without ttl)
InitConfigs ==
    {[hosts |-> <<>>, cnameRecords |-> <<>>],
     [hosts |-> <<IPv4One \o <<" ", "a", " ", "b">>>>,
      cnameRecords |-> <<<<"x", ",", "b">>>>]}

---------------------------------------------------------------------------
(* The state machine: the server's two arrays, the record of the call     *)
(* that has just completed (last; NoOp between calls), and the snapshot an *)
(* add of a new name leaves for the remove that follows it (base).         *)

Server == [hosts |-> hosts, cnameRecords |-> cnameRecords, shape |-> shape]

\* the record maps a successful fetch of server state s decodes to
MapsOf(s) == GetAllRecords(s, None, NoFail).records

NoBase == [tag |-> "none", stage |-> "none", name |-> <<>>, value |-> <<>>,
           maps |-> EmptyRecords]

NoOp == [op |-> "none", name |-> <<>>, value |-> <<>>, ttl |-> 0,
         ttl_omitted |-> FALSE,
         fail |-> NoFail,
         pre |-> [hosts |-> <<>>, cnameRecords |-> <<>>, shape |-> "full"],
         kind |-> "returned", ret |-> NoResponse, records |-> EmptyRecords,
         list |-> <<>>, file |-> NoFile, names |-> {}, stats |-> NoStats,
         calls |-> <<>>]

\* the callers that run update_a_record step by step
Callers == {"c1", "c2"}

\* a caller that has not called update_a_record
Idle == [pc |-> "idle", hostname |-> <<>>, new_ip |-> <<>>, current |-> None,
         deleted |-> FALSE, kind |-> "none", seq |-> 0]

NoUpdates == [c \in Callers |-> Idle]

\* the threads that call get_all_records on one shared instance
Threads == {"t1", "t2", "t3"}

\* a thread that has not called get_all_records
NotReading == [pc |-> "idle", hostLines |-> <<>>, cname_records |-> <<>>,
               kind |-> "none", ret |-> EmptyRecords]

\* the shared instance (its only attribute is the connection), the result
\* dict of each call in progress, and each thread's position
NoReads == [instance |-> [connection |-> "connection"],
            result |-> [t \in Threads |-> EmptyRecords],
            th |-> [t \in Threads |-> NotReading]]

\* the snapshot after operation op(name, value, ttl) with outcome r
NextBase(op, name, value, ttl_omitted, r) ==
    LET pre == MapsOf(Server)
    IN  IF op \in {"get_all_records", "get_a_records", "get_cname_records",
                   "get_local_dns_records", "export_records",
                   "search_records", "get_records_by_ip", "get_statistics"}
        THEN base
        ELSE IF op = "add_a_record" /\ r.kind = "returned"
              /\ name \notin DOMAIN pre.A
        THEN [tag |-> "A", stage |-> "added", name |-> name, value |-> value,
              maps |-> pre]
        ELSE IF op = "add_cname_record" /\ r.kind = "returned"
              /\ ttl_omitted /\ name \notin DOMAIN pre.CNAME
        THEN [tag |-> "CNAME", stage |-> "added", name |-> name, value |-> value,
              maps |-> pre]
        ELSE IF op = "remove_a_record" /\ r.kind = "returned" /\ value = None
              /\ base.tag = "A" /\ base.stage = "added" /\ base.name = name
        THEN [base EXCEPT !.stage = "removed"]
        ELSE IF op = "remove_cname_record" /\ r.kind = "returned" /\ value = None
              /\ ttl_omitted
              /\ base.tag = "CNAME" /\ base.stage = "added" /\ base.name = name
        THEN [base EXCEPT !.stage = "removed"]
        ELSE NoBase

\* the operation's effect on the server and its record in last
Commit(op, name, value, ttl, ttl_omitted, F, r) ==
    /\ last.op = "none"
    /\ Len(r.s.hosts) + Len(r.s.cnameRecords) <= MaxLines
    /\ hosts' = r.s.hosts
    /\ cnameRecords' = r.s.cnameRecords
    /\ shape' = shape
    /\ last' = [op |-> op, name |-> name, value |-> value, ttl |-> ttl,
                ttl_omitted |-> ttl_omitted,
                fail |-> F, pre |-> Server,
                kind |-> r.kind, ret |-> r.ret, records |-> r.records,
                list |-> IF "list" \in DOMAIN r THEN r.list ELSE <<>>,
                file |-> IF "file" \in DOMAIN r THEN r.file ELSE NoFile,
                names |-> IF "names" \in DOMAIN r THEN r.names ELSE {},
                stats |-> IF "stats" \in DOMAIN r THEN r.stats ELSE NoStats,
                calls |-> r.calls]
    /\ base' = NextBase(op, name, value, ttl_omitted, r)
    /\ upd' = upd
    /\ rd' = rd

Init ==
    /\ \E c \in InitConfigs : hosts = c.hosts /\ cnameRecords = c.cnameRecords
    /\ shape = "full"
    /\ last = NoOp
    /\ base = NoBase
    /\ upd = NoUpdates
    /\ rd = NoReads

DoGetAllRecords ==
    \E record_type \in RecordTypes, F \in FailFlags(1) :
        Commit("get_all_records", <<>>, record_type, 0, FALSE, F,
               GetAllRecords(Server, record_type, F))

DoGetARecords ==
    \E F \in FailFlags(1) :
        Commit("get_a_records", <<>>, <<>>, 0, FALSE, F,
               GetARecords(Server, F))

DoGetCnameRecords ==
    \E F \in FailFlags(1) :
        Commit("get_cname_records", <<>>, <<>>, 0, FALSE, F,
               GetCnameRecords(Server, F))

DoAddARecord ==
    \E in \in AddInputs, F \in FailFlags(1) :
        Commit("add_a_record", in[1], in[2], 0, FALSE, F,
               AddARecord(Server, in[1], in[2], F))

DoRemoveARecord ==
    \E hostname \in Hostnames, ip \in {None} \cup ValidIPs, F \in FailFlags(2) :
        Commit("remove_a_record", hostname, ip, 0, FALSE, F,
               RemoveARecord(Server, hostname, ip, F))

DoUpdateARecord ==
    \E hostname \in Hostnames, new_ip \in ValidIPs \cup InvalidIPs,
       F \in FailFlags(3) :
        Commit("update_a_record", hostname, new_ip, 0, FALSE, F,
               UpdateARecord(Server, hostname, new_ip, F))

DoAddCnameRecord ==
    \E alias \in Aliases, target \in Targets, omitted \in BOOLEAN,
       F \in FailFlags(1) :
        \E ttl \in IF omitted THEN {DefaultTtl} ELSE ExplicitTtls :
            Commit("add_cname_record", alias, target, ttl, omitted, F,
                   AddCnameRecord(Server, alias, target, TtlParam(omitted, ttl), F))

DoRemoveCnameRecord ==
    \E alias \in Aliases, target \in {None} \cup Targets, omitted \in BOOLEAN,
       F \in FailFlags(2) :
        \E ttl \in IF omitted THEN {DefaultTtl} ELSE ExplicitTtls :
            Commit("remove_cname_record", alias, target, ttl, omitted, F,
                   RemoveCnameRecord(Server, alias, target, TtlParam(omitted, ttl), F))

DoAddARecordWithValidation ==
    \E in \in ValidationInputs, F \in FailFlags(1) :
        Commit("add_a_record_with_validation", in[1], in[2], 0, FALSE, F,
               AddARecordWithValidation(Server, in[1], in[2], F))

DoGetLocalDnsRecords ==
    \E record_type \in RecordTypes, F \in FailFlags(1) :
        Commit("get_local_dns_records", <<>>, record_type, 0, FALSE, F,
               GetLocalDnsRecords(Server, record_type, F))

DoExportRecords ==
    \E format \in Formats, F \in FailFlags(1) :
        Commit("export_records", format, <<>>, 0, FALSE, F,
               ExportRecords(Server, format, F))

DoSearchRecords ==
    \E query \in Queries, F \in FailFlags(1) :
        Commit("search_records", query, <<>>, 0, FALSE, F,
               SearchRecords(Server, query, F))

DoGetRecordsByIp ==
    \E ip \in QueryIPs, F \in FailFlags(1) :
        Commit("get_records_by_ip", <<>>, ip, 0, FALSE, F,
               GetRecordsByIp(Server, ip, F))

DoGetStatistics ==
    \E F \in FailFlags(1) :
        Commit("get_statistics", <<>>, <<>>, 0, FALSE, F,
               GetStatistics(Server, F))

\* the call is over: the caller has its result, and the library keeps
\* nothing of it
Return ==
    /\ last.op # "none"
    /\ last' = NoOp
    /\ UNCHANGED <<hosts, cnameRecords, shape, base, upd, rd>>

Next ==
    \/ DoGetAllRecords
    \/ DoGetARecords
    \/ DoGetCnameRecords
    \/ DoAddARecord
    \/ DoRemoveARecord
    \/ DoUpdateARecord
    \/ DoAddCnameRecord
    \/ DoRemoveCnameRecord
    \/ DoAddARecordWithValidation
    \/ DoGetLocalDnsRecords
    \/ DoExportRecords
    \/ DoSearchRecords
    \/ DoGetRecordsByIp
    \/ DoGetStatistics
    \/ Return

Spec == Init /\ [][Next]_vars

---------------------------------------------------------------------------
(* The decoders and the export on what the server may hold.  The lines of  *)
(* the two arrays are the server's, not this library's: any text can be in *)
(* them.  DecodeSpec starts from every configuration of lines of a small   *)
(* alphabet, with every shape of the answer, and applies the operations    *)
(* that read.                                                              *)

\* every text of at most n characters of alphabet
Texts(alphabet, n) == UNION {[1..k -> alphabet] : k \in 0..n}

\* the characters of address lines: an ip-like token, a name-like token
\* and the separator
HostChars == {"1", "a", " "}

\* the characters of alias lines: a name-like token, the separator and a
\* ttl-like token
CnameChars == {"x", ",", "3"}

\* "1 a", "a a", "1 A" and the empty line
PairHostLines ==
    {<<"1", " ", "a">>, <<"a", " ", "a">>, <<"1", " ", "A">>, <<>>}

\* "x,3"
PairCnameLines == {<<"x", ",", "3">>}

DecodeConfigs ==
    \* one address line of any text beside the alias line "x,a"
    {[hosts |-> <<l>>, cnameRecords |-> <<<<"x", ",", "a">>>>, shape |-> "full"] :
        l \in Texts(HostChars, MaxLineLen)}
    \cup
    \* one alias line of any text beside the address line "1 a"
    {[hosts |-> <<<<"1", " ", "a">>>>, cnameRecords |-> <<l>>, shape |-> "full"] :
        l \in Texts(CnameChars, MaxLineLen)}
    \cup
    \* two address lines, in either order
    UNION {{[hosts |-> <<l, k>>, cnameRecords |-> <<>>, shape |-> "full"],
            [hosts |-> <<k, l>>, cnameRecords |-> <<>>, shape |-> "full"]} :
               l \in Texts(HostChars, MaxLineLen - 2), k \in PairHostLines}
    \cup
    \* two alias lines, in either order
    UNION {{[hosts |-> <<>>, cnameRecords |-> <<l, k>>, shape |-> "full"],
            [hosts |-> <<>>, cnameRecords |-> <<k, l>>, shape |-> "full"]} :
               l \in Texts(CnameChars, MaxLineLen - 2), k \in PairCnameLines}
    \cup
    \* an answer that lacks a section
    {[hosts |-> <<l>>, cnameRecords |-> <<<<"x", ",", "a">>>>, shape |-> sh] :
        l \in Texts(HostChars, MaxLineLen - 2), sh \in Shapes \ {"full"}}

DecodeInit ==
    /\ \E c \in DecodeConfigs :
          hosts = c.hosts /\ cnameRecords = c.cnameRecords /\ shape = c.shape
    /\ last = NoOp
    /\ base = NoBase
    /\ upd = NoUpdates
    /\ rd = NoReads

DecodeNext ==
    \/ DoGetAllRecords
    \/ DoGetLocalDnsRecords
    \/ DoExportRecords
    \/ DoSearchRecords
    \/ DoGetRecordsByIp
    \/ DoGetStatistics
    \/ Return

DecodeSpec == DecodeInit /\ [][DecodeNext]_vars

---------------------------------------------------------------------------
(* update_a_record step by step.  The method is three transport calls in   *)
(* a row (the get of remove_a_record, its delete, the put of add_a_record) *)
(* with nothing that holds the server between them: the calls of two       *)
(* callers interleave, another caller's query can run between any two of   *)
(* them, and the execution can stop between any two of them.  upd[c] is    *)
(* caller c's position (pc), its arguments, the ip its get found (current),*)
(* whether its delete was applied (deleted), what it raised or returned    *)
(* (kind), and the rank of its put among the puts applied (seq).           *)

\* the fail flags of a single transport call that raises when fail
OneCall(fail) == [i \in 1..3 |-> i = 1 /\ fail]

\* remove_a_record up to its delete: the get, then the lookup of hostname;
\* a hostname that is not found raises ValueError, which update_a_record's
\* bare except discards
FetchStep(u, s, fail) ==
    LET a_records == GetARecords(s, OneCall(fail)).records.A
    IN  IF u.hostname \notin DOMAIN a_records
        THEN [u EXCEPT !.pc = "put"]
        ELSE [u EXCEPT !.pc = "delete", !.current = a_records[u.hostname]]

\* a delete that puts the new line in the same request
DeleteStepReplacing(u, s, fail) ==
    LET d == TransportDelete(s, HostsPath(u.current, u.hostname), fail)
        p == TransportPut(d.s, HostsPath(u.new_ip, u.hostname), fail)
    IN  [u |-> [u EXCEPT !.pc = "put", !.deleted = ~d.raised], s |-> p.s]

\* the delete of remove_a_record; what it raises is discarded as well
DeleteStep(u, s, fail) ==
    LET d == TransportDelete(s, HostsPath(u.current, u.hostname), fail)
    IN  [u |-> [u EXCEPT !.pc = "put", !.deleted = ~d.raised], s |-> d.s]

\* a put of the ip the get found in place of the new one
PutStepOldIp(u, s, fail, n) ==
    LET p == TransportPut(s, HostsPath(IF u.current = None THEN u.new_ip
                                       ELSE u.current, u.hostname), fail)
    IN  [u |-> [u EXCEPT !.pc = "done",
                         !.kind = IF p.raised THEN "transport_error" ELSE "returned",
                         !.seq = IF p.raised THEN 0 ELSE n],
         s |-> p.s]

\* add_a_record: the put, whose outcome is update_a_record's; n is the rank
\* of the put if it is applied
PutStep(u, s, fail, n) ==
    LET p == TransportPut(s, HostsPath(u.new_ip, u.hostname), fail)
    IN  [u |-> [u EXCEPT !.pc = "done",
                         !.kind = IF p.raised THEN "transport_error" ELSE "returned",
                         !.seq = IF p.raised THEN 0 ELSE n],
         s |-> p.s]

\* the puts applied so far
PutsApplied == Cardinality({c \in Callers : upd[c].seq > 0})

\* server configurations the updates start from: those of InitConfigs, and
\* a line that names one hostname, with an ip that is or is not a new one
RaceConfigs ==
    InitConfigs
        \cup {[hosts |-> <<HostLine(ip, <<"a">>)>>, cnameRecords |-> <<>>] :
                  ip \in {IPv4One, BadOctetIP}}

RaceInit ==
    /\ \E c \in RaceConfigs : hosts = c.hosts /\ cnameRecords = c.cnameRecords
    /\ shape = "full"
    /\ last = NoOp
    /\ base = NoBase
    /\ upd = NoUpdates
    /\ rd = NoReads

\* caller c calls update_a_record(hostname, new_ip)
StartUpdate(c) ==
    /\ last.op = "none"
    /\ upd[c].pc = "idle"
    /\ \E hostname \in Hostnames, new_ip \in ValidIPs :
          upd' = [upd EXCEPT ![c] = [Idle EXCEPT !.pc = "fetch",
                                                 !.hostname = hostname,
                                                 !.new_ip = new_ip]]
    /\ UNCHANGED <<hosts, cnameRecords, shape, last, base, rd>>

\* caller c's get
Fetch(c) ==
    /\ last.op = "none"
    /\ upd[c].pc = "fetch"
    /\ \E fail \in BOOLEAN :
          upd' = [upd EXCEPT ![c] = FetchStep(upd[c], Server, fail)]
    /\ UNCHANGED <<hosts, cnameRecords, shape, last, base, rd>>

\* caller c's delete
Delete(c) ==
    /\ last.op = "none"
    /\ upd[c].pc = "delete"
    /\ \E fail \in BOOLEAN :
          LET r == DeleteStep(upd[c], Server, fail)
          IN  /\ upd' = [upd EXCEPT ![c] = r.u]
              /\ hosts' = r.s.hosts
              /\ cnameRecords' = r.s.cnameRecords
    /\ UNCHANGED <<shape, last, base, rd>>

\* caller c's put
Put(c) ==
    /\ last.op = "none"
    /\ upd[c].pc = "put"
    /\ \E fail \in BOOLEAN :
          LET r == PutStep(upd[c], Server, fail, PutsApplied + 1)
          IN  /\ upd' = [upd EXCEPT ![c] = r.u]
              /\ hosts' = r.s.hosts
              /\ cnameRecords' = r.s.cnameRecords
    /\ UNCHANGED <<shape, last, base, rd>>

\* caller c's execution stops between two of its calls
Stop(c) ==
    /\ last.op = "none"
    /\ upd[c].pc \in {"delete", "put"}
    /\ upd' = [upd EXCEPT ![c].pc = "stopped"]
    /\ UNCHANGED <<hosts, cnameRecords, shape, last, base, rd>>

RaceNext ==
    \/ \E c \in Callers : StartUpdate(c)
    \/ \E c \in Callers : Fetch(c)
    \/ \E c \in Callers : Delete(c)
    \/ \E c \in Callers : Put(c)
    \/ \E c \in Callers : Stop(c)
    \/ DoGetARecords
    \/ Return

RaceSpec == RaceInit /\ [][RaceNext]_vars

---------------------------------------------------------------------------
(* get_all_records called from several threads on one instance.  A call is *)
(* the fetch, then one step per line of hosts, then one step per line of   *)
(* cnameRecords, then the return; the steps of the threads interleave.     *)
(* The server configuration is fixed and the transport answers.            *)

\* a result dict kept on the instance, the same for every call
SharedResult(t) == "t1"

\* where the call of thread t keeps its result: in the local variable
\* result of its own frame
OwnResult(t) == t

\* server configurations the threads read: those of InitConfigs, and one
\* with two address lines and an alias line
ReadConfigs ==
    InitConfigs
        \cup {[hosts |-> <<HostLine(IPv4One, <<"a">>), HostLine(IPv6One, <<"b">>)>>,
               cnameRecords |-> <<CnameLine(<<"x">>, <<"a">>, 60)>>]}

ReadInit ==
    /\ \E c \in ReadConfigs : hosts = c.hosts /\ cnameRecords = c.cnameRecords
    /\ shape = "full"
    /\ last = NoOp
    /\ base = NoBase
    /\ upd = NoUpdates
    /\ rd = NoReads

\* thread t calls get_all_records()
CallGetAllRecords(t) ==
    /\ rd.th[t].pc = "idle"
    /\ rd' = [rd EXCEPT !.th[t].pc = "get"]
    /\ UNCHANGED <<hosts, cnameRecords, shape, last, base, upd>>

\* the fetch, the lookups of the sections and result = {"A": {}, "CNAME": {}}
FetchConfig(t) ==
    /\ rd.th[t].pc = "get"
    /\ LET config_response == TransportGet(Server, FALSE).json
           config_data == DictGet(config_response, "config", EmptyMap)
           dns_config == DictGet(config_data, "dns", EmptyMap)
       IN  rd' = [rd EXCEPT
                     !.th[t].pc = "hosts",
                     !.th[t].hostLines = DictGet(dns_config, "hosts", <<>>),
                     !.th[t].cname_records = DictGet(dns_config, "cnameRecords", <<>>),
                     !.result[OwnResult(t)] = EmptyRecords]
    /\ UNCHANGED <<hosts, cnameRecords, shape, last, base, upd>>

\* one turn of the loop over hosts
DecodeHostLine(t) ==
    /\ rd.th[t].pc = "hosts"
    /\ IF rd.th[t].hostLines = <<>>
       THEN rd' = [rd EXCEPT !.th[t].pc = "cnames"]
       ELSE rd' = [rd EXCEPT
                      !.th[t].hostLines = Tail(@),
                      !.result[OwnResult(t)].A =
                          DecodeHosts(@, <<Head(rd.th[t].hostLines)>>)]
    /\ UNCHANGED <<hosts, cnameRecords, shape, last, base, upd>>

\* one turn of the loop over cname_records; after the last, return result
DecodeCnameLine(t) ==
    /\ rd.th[t].pc = "cnames"
    /\ IF rd.th[t].cname_records = <<>>
       THEN rd' = [rd EXCEPT !.th[t].pc = "done",
                             !.th[t].kind = "returned",
                             !.th[t].ret = rd.result[OwnResult(t)]]
       ELSE rd' = [rd EXCEPT
                      !.th[t].cname_records = Tail(@),
                      !.result[OwnResult(t)].CNAME =
                          DecodeCnames(@, <<Head(rd.th[t].cname_records)>>)]
    /\ UNCHANGED <<hosts, cnameRecords, shape, last, base, upd>>

ReadNext ==
    \/ \E t \in Threads : CallGetAllRecords(t)
    \/ \E t \in Threads : FetchConfig(t)
    \/ \E t \in Threads : DecodeHostLine(t)
    \/ \E t \in Threads : DecodeCnameLine(t)

ReadSpec == ReadInit /\ [][ReadNext]_vars

---------------------------------------------------------------------------
(* Properties.  Each is stated on the record of the call that has just     *)
(* completed: its arguments, the server state before it (last.pre), the    *)
(* transport calls it issued and what reached its caller.                  *)

\* what add_address_record must accept: a valid IP literal and a domain
\* that is neither empty nor blank
ValidAddInput(hostname, ip) ==
    IsValidIP(ip) /\ hostname # <<>> /\ ~IsBlank(hostname)

\* the verbs of the transport calls of the completed call, in order
Verbs == [i \in 1..Len(last.calls) |-> last.calls[i].verb]

\* a transport call of the completed call raised in the transport
TransportFailed ==
    \E i \in 1..Len(last.calls) : last.calls[i].result = "transport_error"

\* every transport call of the completed call was answered without error
AllCallsOk == \A i \in 1..Len(last.calls) : last.calls[i].result = "ok"

\* the address map and the alias map of the server before the call
PreA == MapsOf(last.pre).A
PreCNAME == MapsOf(last.pre).CNAME

\* C1: add_address_record(domain, ip) raises a validation error and issues
\* no transport call whenever ip is no valid IP literal or domain is empty
\* or blank.
C1_AddRejectsInvalidInput ==
    (last.op = "add_a_record" /\ ~ValidAddInput(last.name, last.value))
        => (last.kind = "validation_error" /\ last.calls = <<>>)

\* C2: get_all_records raises to its caller whenever the transport get
\* raises; it returns no result for a failed fetch.
C2_GetAllRecordsRaisesOnFailedFetch ==
    (last.op = "get_all_records" /\ TransportFailed)
        => last.kind = "transport_error"

\* C3: a remove with the ip (or target) omitted whose fetch fails in the
\* transport raises a transport failure; not-found is raised only when the
\* fetch succeeded and the name is absent from the decoded map.
C3_RemoveTellsFetchFailureFromNotFound ==
    (last.op \in {"remove_a_record", "remove_cname_record"} /\ last.value = None)
        => /\ (last.calls[1].result = "transport_error"
                  => last.kind = "transport_error")
           /\ (last.kind = "not_found"
                  => /\ last.calls[1].result = "ok"
                     /\ last.name \notin
                            DOMAIN (IF last.op = "remove_a_record"
                                    THEN PreA ELSE PreCNAME))

Segment(path, prefix) == SubSeq(path, Len(prefix) + 1, Len(path))

\* the path names the item line of the array under prefix, percent-encoded
\* as one segment
NamesItem(path, prefix, line) ==
    /\ path = prefix \o Quote(line)
    /\ Unquote(Segment(path, prefix)) = line

\* the address map of the server now
NowA == MapsOf(Server).A

C6_UpdateRejectsInvalidIP ==
    (last.op = "update_a_record" /\ ~IsValidIP(last.value))
        => /\ last.kind = "validation_error"
           /\ last.calls = <<>>
           /\ Server = last.pre

\* C7: update_address_record lets a failed remove step pass only when no
\* prior record existed; when its get or delete raises while a prior record
\* exists, the failure reaches the caller and no successful update is
\* reported.
C7_UpdateReportsAFailedRemove ==
    (/\ last.op = "update_a_record"
     /\ last.name \in DOMAIN PreA
     /\ \E i \in 1..Len(last.calls) :
            /\ last.calls[i].verb \in {"get", "delete"}
            /\ last.calls[i].result # "ok")
        => last.kind = "transport_error"

EncodedSegment(path) ==
    IF IsPrefix(HostsPrefix, path) THEN Segment(path, HostsPrefix)
    ELSE Segment(path, CnamePrefix)

\* C11: for every ip, domain, alias and target, the path segment add and
\* remove encode holds no unescaped '/' and no unescaped space: the request
\* path has exactly one component after config/dns/hosts/ or
\* config/dns/cnameRecords/.
C11_SegmentIsOneComponent ==
    \A i \in 1..Len(last.calls) :
        last.calls[i].verb \in {"put", "delete"}
            => \A j \in 1..Len(EncodedSegment(last.calls[i].path)) :
                   EncodedSegment(last.calls[i].path)[j] \notin {"/", " "}

\* the server line the i-th transport call of the completed call names
LineOfCall(i) == Unquote(EncodedSegment(last.calls[i].path))

\* C12: round trip.  For every (domain, ip) add_address_record accepts,
\* decoding the server line '<ip> <domain>' it encodes yields exactly one
\* address record, (domain, ip); for every (alias, target, ttl)
\* add_alias_record accepts, decoding '<alias>,<target>,<ttl>' yields exactly
\* one alias record with that alias, target and ttl.
C12_EncodeThenDecodeIsIdentity ==
    /\ (last.op = "add_a_record_with_validation" /\ last.kind = "returned")
           => LET decoded == ListHosts(<<LineOfCall(1)>>)
              IN  /\ Len(decoded) = 1
                  /\ decoded[1].domain = last.name
                  /\ decoded[1].ip = last.value
    /\ (last.op = "add_cname_record" /\ last.kind = "returned")
           => LET decoded == ListCnames(<<LineOfCall(1)>>)
              IN  /\ Len(decoded) = 1
                  /\ decoded[1].domain = last.name
                  /\ decoded[1].target = last.value
                  /\ decoded[1].ttl = IntToStr(last.ttl)

\* the completed call is a get_local_dns_records that returned the address
\* records of a fetched payload
ListedAddresses ==
    /\ last.op = "get_local_dns_records"
    /\ last.kind = "returned"
    /\ (last.value = None \/ Upper(last.value) = <<"A">>)
    /\ last.pre.shape \in {"full", "no_cnameRecords"}

\* the address records of the list the completed call returned
AddressList == SelectSeq(last.list, LAMBDA rec : rec.type = "A")

\* the tokens of an address line, and the number of its hostname tokens when
\* an ip token and at least one hostname token are there
Tokens(line) == SplitWs(line)
HostnameCount(line) == IF Len(Tokens(line)) >= 2 THEN Len(Tokens(line)) - 1 ELSE 0

\* the number of hostname tokens of the valid lines before line i
RECURSIVE CountBefore(_, _)
CountBefore(lines, i) ==
    IF i <= 1 THEN 0
    ELSE CountBefore(lines, i - 1) + HostnameCount(lines[i - 1])

\* C13: an address line with an ip token followed by N >= 1 hostname tokens
\* decodes to exactly N address records, one per hostname token in line
\* order, each carrying the line's first token as ip.
C13_OneRecordPerHostnameToken ==
    ListedAddresses =>
        LET lines == last.pre.hosts
        IN  /\ Len(AddressList) = CountBefore(lines, Len(lines) + 1)
            /\ \A i \in 1..Len(lines) :
                 \A k \in 1..HostnameCount(lines[i]) :
                     LET rec == AddressList[CountBefore(lines, i) + k]
                     IN  /\ rec.domain = Tokens(lines[i])[k + 1]
                         /\ rec.ip = Tokens(lines[i])[1]
                         /\ rec.raw_entry = lines[i]

\* C13 happens: a line with two hostname tokens was decoded to two records
C13_Witness ==
    /\ ListedAddresses
    /\ \E i \in 1..Len(last.pre.hosts) : HostnameCount(last.pre.hosts[i]) = 2
    /\ Len(AddressList) >= 2

\* the completed call is a get_all_records for every type, or for type A,
\* whose fetch was answered with the hosts array in the payload
FetchedAddresses ==
    /\ last.op = "get_all_records"
    /\ AllCallsOk
    /\ (last.value = None \/ Upper(last.value) = <<"A">>)
    /\ last.pre.shape \in {"full", "no_cnameRecords"}

\* the lines of an array that have an ip token and a hostname token
ValidHostLines(lines) == SelectSeq(lines, LAMBDA line : HostnameCount(line) >= 1)

\* the hostname tokens of line
HostnamesOf(line) == {Tokens(line)[k + 1] : k \in 1..HostnameCount(line)}

\* C14: an address line with fewer than 2 whitespace-separated tokens (the
\* empty string, a lone ip, a lone hostname) contributes zero records and
\* raises no error, and every valid line of the same payload is still
\* decoded: the map is the one of the payload without the short lines, and
\* its keys are the hostname tokens of the valid lines.
C14_ShortAddressLineIsSkipped ==
    FetchedAddresses =>
        LET lines == last.pre.hosts
        IN  /\ last.kind = "returned"
            /\ DOMAIN last.records.A =
                   UNION {HostnamesOf(lines[i]) : i \in 1..Len(lines)}
            /\ last.records.A =
                   MapsOf([last.pre EXCEPT !.hosts = ValidHostLines(lines)]).A

\* C14 happens: a short line came before a valid line of the same payload,
\* and the valid line was decoded
C14_Witness ==
    /\ FetchedAddresses
    /\ Len(last.pre.hosts) = 2
    /\ HostnameCount(last.pre.hosts[1]) = 0
    /\ HostnameCount(last.pre.hosts[2]) >= 1
    /\ last.kind = "returned"
    /\ last.records.A # EmptyMap

\* the completed call is a get_all_records for every type, or for type
\* CNAME, whose fetch was answered with the cnameRecords array in the payload
FetchedAliases ==
    /\ last.op = "get_all_records"
    /\ AllCallsOk
    /\ (last.value = None \/ Upper(last.value) = <<"C", "N", "A", "M", "E">>)
    /\ last.pre.shape \in {"full", "no_hosts"}

\* the comma-separated tokens of an alias line
Fields(line) == SplitOn(line, ",")

\* the alias line has an alias token and a target token, both non-empty
UsableAliasLine(line) ==
    /\ Len(Fields(line)) >= 2
    /\ Fields(line)[1] # <<>>
    /\ Fields(line)[2] # <<>>

\* C15: an alias line yields a record only when it has at least 2 non-empty
\* comma-separated tokens; a line with no comma, the empty line and a line
\* whose alias or target token is empty ('alias.local,') contribute zero
\* records and raise no error.
C15_UnusableAliasLineIsSkipped ==
    FetchedAliases =>
        LET lines == last.pre.cnameRecords
        IN  /\ last.kind = "returned"
            /\ \A alias \in DOMAIN last.records.CNAME :
                   \E i \in 1..Len(lines) :
                       /\ UsableAliasLine(lines[i])
                       /\ Fields(lines[i])[1] = alias
                       /\ Fields(lines[i])[2] = last.records.CNAME[alias]

\* the last line of lines that names hostname h
LastLineOf(lines, h) ==
    CHOOSE i \in 1..Len(lines) :
        /\ h \in HostnamesOf(lines[i])
        /\ \A j \in (i + 1)..Len(lines) : h \notin HostnamesOf(lines[j])

\* C16: in the keyed address map get_all_records returns, every hostname
\* token of every valid line is a key, and a hostname that two raw lines
\* name maps to the ip of the later line in server order (last one wins).
C16_KeyedMapLastLineWins ==
    FetchedAddresses =>
        LET lines == last.pre.hosts
        IN  \A i \in 1..Len(lines) :
                \A h \in HostnamesOf(lines[i]) :
                    /\ h \in DOMAIN last.records.A
                    /\ last.records.A[h] = Tokens(lines[LastLineOf(lines, h)])[1]

\* C16 happens: two lines with different ips named the same hostname, and
\* the map holds the ip of the second
C16_Witness ==
    /\ FetchedAddresses
    /\ Len(last.pre.hosts) = 2
    /\ \E h \in HostnamesOf(last.pre.hosts[1]) \cap HostnamesOf(last.pre.hosts[2]) :
           /\ Tokens(last.pre.hosts[1])[1] # Tokens(last.pre.hosts[2])[1]
           /\ last.records.A[h] = Tokens(last.pre.hosts[2])[1]

\* the completed call is a get_all_records for every type whose fetch was
\* answered
FetchedAll ==
    /\ last.op = "get_all_records"
    /\ AllCallsOk
    /\ last.value = None

\* the record maps of the server before the call, had its answer carried
\* every section
FullMaps == MapsOf([last.pre EXCEPT !.shape = "full"])

\* C17: when the fetched payload lacks the 'config' key, the 'dns' section,
\* or one of the 'hosts' / 'cnameRecords' sub-keys, get_all_records returns
\* without error, with an empty collection for each missing part and the
\* normal decoding of every part that is present.
C17_MissingSectionDecodesEmpty ==
    FetchedAll =>
        /\ last.kind = "returned"
        /\ last.records.A =
               IF last.pre.shape \in {"no_config", "no_dns", "no_hosts"}
               THEN EmptyMap ELSE FullMaps.A
        /\ last.records.CNAME =
               IF last.pre.shape \in {"no_config", "no_dns", "no_cnameRecords"}
               THEN EmptyMap ELSE FullMaps.CNAME

\* C17 happens: the payload had no hosts key, and the alias lines were
\* decoded beside an empty address map
C17_Witness ==
    /\ FetchedAll
    /\ last.pre.shape = "no_hosts"
    /\ HostnameCount(last.pre.hosts[1]) >= 1
    /\ last.kind = "returned"
    /\ last.records.A = EmptyMap
    /\ last.records.CNAME # EmptyMap

\* the format names the export is specified for: json, csv, hosts, zone
FormatHosts == <<"h", "o", "s", "t", "s">>
FormatZone == <<"z", "o", "n", "e">>
SpecifiedFormats == {FormatJson, FormatCsv, FormatHosts, FormatZone}

\* C18: export_records with a format name that is not supported raises a
\* validation error and issues zero transport calls: the configuration is
\* not fetched before the format is rejected.
C18_UnsupportedFormatIsRejectedFirst ==
    (last.op = "export_records" /\ Lower(last.name) \notin SpecifiedFormats)
        => (last.kind = "validation_error" /\ last.calls = <<>>)

\* the lines of the simplified zone syntax
Tab == <<"\t">>
ZoneALine(domain, ip) ==
    domain \o <<".">> \o Tab \o <<"I", "N">> \o Tab \o <<"A">> \o Tab \o ip
ZoneCnameLine(domain, ttl, target) ==
    domain \o <<".">> \o Tab \o ttl \o Tab \o <<"I", "N">> \o Tab
        \o <<"C", "N", "A", "M", "E">> \o Tab \o target \o <<".">>

\* C19: export_records with format 'zone' is accepted and writes one line
\* per record: '<domain>.<TAB>IN<TAB>A<TAB><ip>' for each address record and
\* '<domain>.<TAB><ttl><TAB>IN<TAB>CNAME<TAB><target>.' for each alias
\* record.
C19_ZoneFormatIsWritten ==
    (last.op = "export_records" /\ Lower(last.name) = FormatZone /\ AllCallsOk)
        => /\ last.kind = "returned"
           /\ last.file.format = "zone"
           /\ \A domain \in DOMAIN PreA :
                  ZoneALine(domain, PreA[domain]) \in last.file.rows
           /\ \A alias \in DOMAIN PreCNAME :
                  \E ttl \in Texts(DigitChars, 3) :
                      ZoneCnameLine(alias, ttl, PreCNAME[alias]) \in last.file.rows

\* the last alias line of lines whose alias token is alias
LastAliasLine(lines, alias) ==
    lines[CHOOSE i \in 1..Len(lines) :
              /\ Len(Fields(lines[i])) >= 2 /\ Fields(lines[i])[1] = alias
              /\ \A j \in (i + 1)..Len(lines) :
                     ~(Len(Fields(lines[j])) >= 2 /\ Fields(lines[j])[1] = alias)]

\* the ttl an alias line stores: its third token, "300" when it has none
StoredTtl(line) ==
    IF Len(Fields(line)) > 2 THEN Fields(line)[3] ELSE <<"3", "0", "0">>

\* C20: in the csv export, after the header row Domain,Type,Target,TTL there
\* is exactly one row per record; every address row has an empty TTL field,
\* and every alias row carries the ttl stored in that alias's raw server
\* line, with '300' only when the raw line has no ttl token.
C20_CsvAliasRowCarriesStoredTtl ==
    (last.op = "export_records" /\ Lower(last.name) = FormatCsv /\ AllCallsOk
         /\ last.pre.shape = "full")
        => /\ last.kind = "returned"
           /\ last.file.header = CsvHeader
           /\ Cardinality(last.file.rows) =
                  Cardinality(DOMAIN PreA) + Cardinality(DOMAIN PreCNAME)
           /\ \A domain \in DOMAIN PreA :
                  <<domain, <<"A">>, PreA[domain], <<>>>> \in last.file.rows
           /\ \A alias \in DOMAIN PreCNAME :
                  <<alias, <<"C", "N", "A", "M", "E">>, PreCNAME[alias],
                    StoredTtl(LastAliasLine(last.pre.cnameRecords, alias))>>
                      \in last.file.rows

\* query is a substring of text when letter case is ignored
MatchesIgnoringCase(query, text) ==
    \E i \in 0..(Len(text) - Len(query)) :
        \A j \in 1..Len(query) : LowerChar(text[i + j]) = LowerChar(query[j])

\* C21: search_records(query) returns, under the keys A and CNAME, exactly
\* those entries of get_all_records whose domain (A) or alias (CNAME)
\* contains query as a substring ignoring letter case; it never matches on
\* ip or target, and every returned entry has the value it has in the full
\* map.
C21_SearchMatchesNamesOnly ==
    (last.op = "search_records" /\ AllCallsOk) =>
        /\ last.kind = "returned"
        /\ DOMAIN last.records.A =
               {domain \in DOMAIN PreA : MatchesIgnoringCase(last.name, domain)}
        /\ \A domain \in DOMAIN last.records.A :
               last.records.A[domain] = PreA[domain]
        /\ DOMAIN last.records.CNAME =
               {alias \in DOMAIN PreCNAME : MatchesIgnoringCase(last.name, alias)}
        /\ \A alias \in DOMAIN last.records.CNAME :
               last.records.CNAME[alias] = PreCNAME[alias]

\* C21 happens: the query is in the ip of a domain that does not contain it,
\* which is left out, beside a domain that contains it, which is returned
C21_Witness ==
    /\ last.op = "search_records" /\ AllCallsOk
    /\ \E domain \in DOMAIN PreA :
           /\ MatchesIgnoringCase(last.name, PreA[domain])
           /\ domain \notin DOMAIN last.records.A
    /\ last.records.A # EmptyMap

\* the completed call is a get_statistics whose fetch was answered with the
\* hosts array in the payload
FetchedStatistics ==
    /\ last.op = "get_statistics"
    /\ AllCallsOk
    /\ last.pre.shape \in {"full", "no_cnameRecords"}

\* the ips of the address records the lines decode to, one record per
\* hostname token of a valid line
DecodedIps(lines) ==
    {Tokens(lines[i])[1] : i \in {j \in 1..Len(lines) : HostnameCount(lines[j]) >= 1}}

\* C22: for every hosts payload, get_statistics()['unique_ips'] is the
\* number of distinct ip values among all address records decoded from its
\* valid lines (one record per hostname token), also when the same hostname
\* appears in several lines with different ips.
C22_UniqueIpsCountsDecodedRecords ==
    FetchedStatistics =>
        last.stats.unique_ips = Cardinality(DecodedIps(last.pre.hosts))

\* C23: get_statistics()['domains_per_ip'] has exactly the distinct ips of
\* the address map as keys and maps each ip to the number of domains that
\* point to it, so that its values sum to get_statistics()['A'].
C23_DomainsPerIpCounts ==
    FetchedStatistics =>
        /\ DOMAIN last.stats.domains_per_ip = {PreA[domain] : domain \in DOMAIN PreA}
        /\ \A ip \in DOMAIN last.stats.domains_per_ip :
               /\ last.stats.domains_per_ip[ip].type = "int"
               /\ last.stats.domains_per_ip[ip] =
                      PyInt(Cardinality({domain \in DOMAIN PreA : PreA[domain] = ip}))

\* the query operations
QueryOps ==
    {"get_all_records", "get_a_records", "get_cname_records", "search_records",
     "get_records_by_ip", "get_statistics"}

\* C24: every query operation issues only get calls on the transport and
\* never put, post, patch or delete, so that the server configuration is
\* unchanged by it; consequently a second get_all_records call, with no
\* mutation in between, returns the result the first returned.
C24_QueriesOnlyReadAndRepeat ==
    last.op \in QueryOps =>
        /\ \A i \in 1..Len(last.calls) : last.calls[i].verb = "get"
        /\ Server = last.pre
        /\ last.op = "get_all_records" =>
               \A F \in FailFlags(1) :
                   LET second == GetAllRecords(Server, last.value, F)
                   IN  (last.kind = "returned" /\ second.kind = "returned")
                           => second.records = last.records

\* caller c has had its delete applied and has not put: it is between the
\* two calls, or it stopped there; no put of any caller has been applied
BetweenDeleteAndPut(c) ==
    /\ upd[c].deleted
    /\ upd[c].pc \in {"put", "stopped"}
    /\ PutsApplied = 0

\* C25: update_address_record is not atomic.  Between its delete and its put
\* the domain has no address mapping on the server, and another caller's
\* get_address_records observes that; if the execution stops after the
\* delete and before the put, the domain stays unmapped.
C25_UpdateLeavesDomainUnmappedBetweenSteps ==
    \A c \in Callers :
        BetweenDeleteAndPut(c) =>
            /\ upd[c].hostname \notin DOMAIN NowA
            /\ (last.op = "get_a_records" /\ AllCallsOk)
                   => upd[c].hostname \notin DOMAIN last.records.A

\* C25 happens: the execution stopped after a delete that was applied, and
\* another caller's get_a_records found the domain, mapped when the update
\* began, in no record
C25_Witness ==
    \E c \in Callers :
        /\ BetweenDeleteAndPut(c)
        /\ upd[c].pc = "stopped"
        /\ upd[c].current # None
        /\ last.op = "get_a_records" /\ AllCallsOk
        /\ upd[c].hostname \notin DOMAIN last.records.A

\* both callers have returned from update_a_record on one domain, with
\* different ips
BothReturned ==
    /\ \A c \in Callers : upd[c].pc = "done" /\ upd[c].kind = "returned"
    /\ upd["c1"].hostname = upd["c2"].hostname
    /\ upd["c1"].new_ip # upd["c2"].new_ip

\* the positions of the address lines that name hostname h
LinesNaming(h) == {i \in 1..Len(hosts) : h \in HostnamesOf(hosts[i])}

\* the ip of the put that was applied last
LastPutIp == upd[CHOOSE c \in Callers : upd[c].seq = PutsApplied].new_ip

\* C26 as stated: when two callers run update_address_record on the same
\* domain concurrently with different ips, then in every interleaving, once
\* both have returned, the server holds exactly one address line for that
\* domain, with the ip of the put that was applied last.
C26_RaceLeavesOneLine ==
    BothReturned =>
        /\ Cardinality(LinesNaming(upd["c1"].hostname)) = 1
        /\ \A i \in LinesNaming(upd["c1"].hostname) :
               hosts[i] = HostLine(LastPutIp, upd["c1"].hostname)

\* C26 amended: once both have returned, the server holds at least one
\* address line for that domain; the last of them is the line of the put
\* that was applied last, and the domain maps to that put's ip.
C26_RaceLastPutWins ==
    BothReturned =>
        LET h == upd["c1"].hostname
        IN  /\ LinesNaming(h) # {}
            /\ \E i \in LinesNaming(h) :
                   /\ \A j \in LinesNaming(h) : j <= i
                   /\ hosts[i] = HostLine(LastPutIp, h)
            /\ NowA[h] = LastPutIp

\* C26 happens: both callers have returned, and the lines of both puts are
\* on the server
C26_Witness ==
    /\ BothReturned
    /\ Cardinality(LinesNaming(upd["c1"].hostname)) = 2
    /\ NowA[upd["c1"].hostname] = LastPutIp

\* the positions of the alias lines of the server before the call whose
\* alias token is alias
AliasLines(alias) ==
    {i \in 1..Len(last.pre.cnameRecords) :
        /\ Len(Fields(last.pre.cnameRecords[i])) >= 2
        /\ Fields(last.pre.cnameRecords[i])[1] = alias}

\* alias is on the server as add_alias_record puts it: on one line, of the
\* three tokens alias, target and ttl
AddedByAddAlias(alias) ==
    /\ Cardinality(AliasLines(alias)) = 1
    /\ \A i \in AliasLines(alias) : Len(Fields(last.pre.cnameRecords[i])) = 3

\* C27: for every ttl, after add_alias_record(alias, target, ttl) has
\* succeeded, remove_alias_record(alias) with target and ttl omitted issues
\* its delete on the encoded segment the add put, so that the alias is
\* afterwards absent from get_alias_records.
C27_RemoveAliasNamesTheAddedLine ==
    (/\ last.op = "remove_cname_record"
     /\ last.value = None /\ last.ttl_omitted
     /\ AddedByAddAlias(last.name)
     /\ ~TransportFailed)
        => /\ Len(last.calls) = 2
           /\ LineOfCall(2) \in Range(last.pre.cnameRecords)
           /\ last.name \notin DOMAIN MapsOf(Server).CNAME

\* C28: whenever remove_address_record(hostname) with ip omitted issues a
\* delete, the decoded segment of that delete is one of the raw hosts lines
\* its fetch returned, also when hostname was decoded from a line that lists
\* several hostnames for one ip; so after a successful remove the hostname
\* is absent from get_address_records.
C28_RemoveNamesARawLine ==
    (/\ last.op = "remove_a_record"
     /\ last.value = None
     /\ Len(last.calls) = 2)
        => /\ LineOfCall(2) \in Range(last.pre.hosts)
           /\ last.kind = "returned" => last.name \notin DOMAIN NowA

\* C29: concurrent get_all_records calls from several threads on one shared
\* instance, with the server configuration fixed, all complete without
\* error and each returns the result of a single sequential call; no call
\* changes the instance's state or another call's decoded snapshot: what a
\* call has decoded and what it has still to decode always make up the
\* sequential result.
C29_ConcurrentReadsAgree ==
    /\ rd.instance = NoReads.instance
    /\ \A t \in Threads :
           /\ rd.th[t].pc = "done"
                  => /\ rd.th[t].kind = "returned"
                     /\ rd.th[t].ret = MapsOf(Server)
           /\ rd.th[t].pc \in {"hosts", "cnames"}
                  => /\ DecodeHosts(rd.result[t].A, rd.th[t].hostLines)
                            = MapsOf(Server).A
                     /\ DecodeCnames(rd.result[t].CNAME, rd.th[t].cname_records)
                            = MapsOf(Server).CNAME

\* C29 happens: one thread has returned the records of a configuration of
\* several lines while another is in the middle of its decoding and a third
\* has not fetched yet
C29_Witness ==
    /\ rd.th["t1"].pc = "done"
    /\ rd.th["t1"].ret.A # EmptyMap /\ rd.th["t1"].ret.CNAME # EmptyMap
    /\ rd.th["t2"].pc = "hosts" /\ Len(rd.th["t2"].hostLines) = 1
    /\ rd.th["t3"].pc = "get"
    /\ Len(hosts) = 2

\* the list of records folded in order into the record maps: domain -> ip
\* for a record of type A, domain -> target for a record of type CNAME, a
\* later record replacing an earlier one of the same domain
RECURSIVE FoldRecords(_, _)
FoldRecords(maps, list) ==
    IF list = <<>> THEN maps
    ELSE LET rec == Head(list)
         IN  FoldRecords(IF rec.type = "A"
                         THEN [maps EXCEPT !.A = MapPut(@, rec.domain, rec.ip)]
                         ELSE [maps EXCEPT
                                  !.CNAME = MapPut(@, rec.domain, rec.target)],
                         Tail(list))

\* the keyed decoder takes the address line, the alias line
KeyedTakesHost(line) == DecodeHosts(EmptyMap, <<line>>) # EmptyMap
KeyedTakesCname(line) == DecodeCnames(EmptyMap, <<line>>) # EmptyMap

\* the list decoder takes the address line, the alias line
ListTakesHost(line) == ListHosts(<<line>>) # <<>>
ListTakesCname(line) == ListCnames(<<line>>) # <<>>

\* C30: for every configuration payload fetched successfully and every
\* record_type filter, the keyed view of get_all_records equals the list
\* view of get_local_dns_records folded in order into maps (later entries
\* overwriting earlier ones), and the two decoders take and skip the same
\* raw lines.
C30_KeyedViewIsFoldedListView ==
    /\ (last.op = "get_all_records" /\ AllCallsOk)
           => last.records =
                  FoldRecords(EmptyRecords,
                              GetLocalDnsRecords(last.pre, last.value, NoFail).list)
    /\ (last.op = "get_local_dns_records" /\ AllCallsOk)
           => /\ last.kind = "returned"
              /\ FoldRecords(EmptyRecords, last.list) =
                     GetAllRecords(last.pre, last.value, NoFail).records
    /\ (last.op \in {"get_all_records", "get_local_dns_records"} /\ AllCallsOk)
           => /\ \A i \in 1..Len(last.pre.hosts) :
                    KeyedTakesHost(last.pre.hosts[i])
                        <=> ListTakesHost(last.pre.hosts[i])
              /\ \A i \in 1..Len(last.pre.cnameRecords) :
                    KeyedTakesCname(last.pre.cnameRecords[i])
                        <=> ListTakesCname(last.pre.cnameRecords[i])

\* C30 happens: a fetch for the type "CNAME" of two alias lines, one of two
\* fields that both decoders take and one without a separator that both
\* skip, has returned a keyed view that is not empty
C30_Witness ==
    /\ last.op = "get_all_records"
    /\ AllCallsOk
    /\ last.value = <<"C", "N", "A", "M", "E">>
    /\ Len(last.pre.cnameRecords) = 2
    /\ \E i \in 1..2 : Len(Fields(last.pre.cnameRecords[i])) = 2
    /\ \E i \in 1..2 : ~ KeyedTakesCname(last.pre.cnameRecords[i])
    /\ last.records.CNAME # EmptyMap
    /\ last.records.A = EmptyMap

====
